---- MODULE Spec2Model ----
(***************************************************************************)
(* Bear notes MCP server: the write path (bear:// x-callback-url actions   *)
(* dispatched through `open`), the read path (read-only SQLite queries),   *)
(* the shared database connection and the fourteen tool handlers.          *)
(*                                                                         *)
(* Strings are sequences of one-character strings, so that concatenation,  *)
(* percent-encoding and SQL LIKE matching are computed and not assumed.    *)
(***************************************************************************)
EXTENDS Integers, Sequences, FiniteSets, TLC

VARIABLES
    db,          \* database.ts `db`: 0 (null) or the id of the handle held
    handles,     \* every Database object constructed so far, by id
    store,       \* content of Bear's SQLite file (owned by the Bear app)
    running,     \* the server process is alive
    lastOp,      \* the tool request (or module call) handled last: name,
                 \* arguments and, for a read, the environment it met
    result,      \* the ToolResult that request returned
    fault,       \* the error thrown inside that handler's try block
    escaped,     \* an exception left that handler uncaught
    calls        \* the `open` invocations made by that request, in order

vars == <<db, handles, store, running, lastOp, result, fault, escaped, calls>>

----------------------------------------------------------------------------
(* Bounds of the model *)

MaxNotes == 2        \* notes in an exhaustively enumerated store
MaxBulk == 52        \* notes in a bulk store (exceeds the LIMIT 50)
MaxTags == 2         \* tags in a tag list argument
MaxOpens == 3        \* connections opened by callers of the module

----------------------------------------------------------------------------
(* Strings *)

RECURSIVE Concat(_)
Concat(ss) == IF ss = <<>> THEN <<>> ELSE Head(ss) \o Concat(Tail(ss))

\* Array.prototype.join
RECURSIVE Join(_, _)
Join(ss, sep) ==
    IF ss = <<>> THEN <<>>
    ELSE IF Len(ss) = 1 THEN ss[1]
    ELSE ss[1] \o sep \o Join(Tail(ss), sep)

\* p occurs in s as a contiguous substring
Contains(s, p) ==
    \E i \in 0..(Len(s) - Len(p)) : SubSeq(s, i + 1, i + Len(p)) = p

\* ASCII lower-casing of one character
LowerChar(c) == CASE c = "A" -> "a" [] c = "B" -> "b" [] OTHER -> c

Lower(s) == [i \in 1..Len(s) |-> LowerChar(s[i])]

ContainsNoCase(s, p) == Contains(Lower(s), Lower(p))

----------------------------------------------------------------------------
(* JavaScript values that reach the functions at run time *)

Undefined == [t |-> "undefined", v |-> <<>>]
JsString(s) == [t |-> "string", v |-> s]
JsArray(a) == [t |-> "array", v |-> a]

\* `x?.length` in a condition: undefined, 0 and "" are falsy
HasLength(x) == x.t # "undefined" /\ Len(x.v) > 0

\* `if (x)` on an optional string
Truthy(x) == x.t = "string" /\ Len(x.v) > 0

----------------------------------------------------------------------------
(* Errors *)

NoError == [name |-> "none", message |-> <<>>, cause |-> "none"]

MkBearError(message, cause) ==
    [name |-> "BearError", message |-> message, cause |-> cause]

MkDatabaseError(message, cause) ==
    [name |-> "DatabaseError", message |-> message, cause |-> cause]

\* calling `.map` on a value that is not an array
MkTypeError(message) ==
    [name |-> "TypeError", message |-> message, cause |-> "none"]

----------------------------------------------------------------------------
(* Write path: bear://x-callback-url actions *)

\* encodeURIComponent on one character: letters, digits and - _ . ! ~ * ' ( )
\* are kept, everything else becomes the percent-escape of its UTF-8 byte
EncodeChar(c) ==
    CASE c = "#"  -> <<"%", "2", "3">>
      [] c = " "  -> <<"%", "2", "0">>
      [] c = "\n" -> <<"%", "0", "A">>
      [] c = "%"  -> <<"%", "2", "5">>
      [] OTHER    -> <<c>>

encodeURIComponent(s) == Concat([i \in 1..Len(s) |-> EncodeChar(s[i])])

Param(k, val) == [key |-> k, value |-> val]

EncodePair(p) == <<p.key, "=">> \o encodeURIComponent(p.value)

BearUrl(action, params) ==
    <<"bear://x-callback-url/", action, "?">>
        \o Join([i \in 1..Len(params) |-> EncodePair(params[i])], <<"&">>)

NoCalls == <<>>

\* the outcome of a function of the write path: the `open` invocations it
\* made and the error it threw (NoError when it returned)
callBearUrl(action, params, openOk) ==
    [calls |-> << [action |-> action, params |-> params,
                   url |-> BearUrl(action, params), accepted |-> openOk] >>,
     err   |-> IF openOk THEN NoError
               ELSE MkBearError(<<"Failed to call Bear action: ", action>>,
                                "open")]

HashTag(tg) == <<"#">> \o tg

\* tags.map(t => `#${t}`).join(" ") + "\n\n"
TagLine(tags) ==
    Join([i \in 1..Len(tags) |-> HashTag(tags[i])], <<" ">>) \o <<"\n", "\n">>

Threw(err) == [calls |-> NoCalls, err |-> err]

\* createNote with the tag line separated from the body by one newline
createNoteOneNewline(title, text, tags, openOk) ==
    LET line == Join([i \in 1..Len(tags.v) |-> HashTag(tags.v[i])], <<" ">>)
                    \o <<"\n">>
        fullText == (IF HasLength(tags) THEN line ELSE <<>>) \o text
    IN  callBearUrl("create",
            <<Param("title", title), Param("text", fullText)>>, openOk)

createNote(title, text, tags, openOk) ==
    IF HasLength(tags) /\ tags.t # "array"
    THEN Threw(MkTypeError(<<"tags.map is not a function">>))
    ELSE LET fullText == (IF HasLength(tags) THEN TagLine(tags.v) ELSE <<>>)
                             \o text
         IN  callBearUrl("create",
                 <<Param("title", title), Param("text", fullText)>>, openOk)

appendToNote(noteId, text, openOk) ==
    callBearUrl("add-text",
        <<Param("id", noteId), Param("text", text),
          Param("mode", <<"append">>)>>, openOk)

\* declared with three parameters: (noteId, text, tags)
replaceNoteContent(noteId, text, tags, openOk) ==
    IF HasLength(tags) /\ tags.t # "array"
    THEN Threw(MkTypeError(<<"tags.map is not a function">>))
    ELSE LET fullText == (IF HasLength(tags) THEN TagLine(tags.v) ELSE <<>>)
                             \o text
         IN  callBearUrl("add-text",
                 <<Param("id", noteId), Param("text", fullText),
                   Param("mode", <<"replace_all">>)>>, openOk)

trashNote(noteId, openOk) ==
    callBearUrl("trash", <<Param("id", noteId)>>, openOk)

archiveNote(noteId, openOk) ==
    callBearUrl("archive", <<Param("id", noteId)>>, openOk)

unarchiveNote(noteId, openOk) ==
    callBearUrl("unarchive", <<Param("id", noteId)>>, openOk)

\* The three functions below are imported by the server from ./bear.js but
\* their bodies are not part of the sources; they follow the write protocol
\* of the specification.
prependToNote(noteId, text, openOk) ==
    callBearUrl("add-text",
        <<Param("id", noteId), Param("text", text),
          Param("mode", <<"prepend">>)>>, openOk)

renameTag(name, newName, openOk) ==
    callBearUrl("rename-tag",
        <<Param("name", name), Param("new_name", newName)>>, openOk)

deleteTag(name, openOk) ==
    callBearUrl("delete-tag", <<Param("name", name)>>, openOk)

----------------------------------------------------------------------------
(* Connection lifecycle (database.ts) *)

\* the candidate locations, in probing order: iCloud container, local
DB_PATHS == <<"icloud", "local">>

NoDb == 0

NotFoundMessage ==
    <<"Bear database not found. Make sure Bear is installed and has been opened at least once.">>

\* index of the first candidate that exists, 0 when the loop falls through
findDatabasePath(exists) ==
    IF \E i \in 1..Len(DB_PATHS) : DB_PATHS[i] \in exists
    THEN CHOOSE i \in 1..Len(DB_PATHS) :
             /\ DB_PATHS[i] \in exists
             /\ \A j \in 1..(i - 1) : DB_PATHS[j] \notin exists
    ELSE 0

\* getDatabase without the `if (!db)` test: every call opens the file anew
getDatabaseReopen(env) ==
    LET p == findDatabasePath(env.exists) IN
    IF p = 0
    THEN [db |-> NoDb, handles |-> handles,
          err |-> MkDatabaseError(NotFoundMessage, "none")]
    ELSE IF env.canOpen
    THEN [db |-> Len(handles) + 1,
          handles |-> Append(handles,
              [path |-> DB_PATHS[p], readonly |-> TRUE, open |-> TRUE,
               closes |-> 0]),
          err |-> NoError]
    ELSE [db |-> NoDb, handles |-> handles,
          err |-> MkDatabaseError(<<"Failed to open Bear database">>, "open")]

\* getDatabase without the try/catch around `new Database`: the driver's
\* error leaves the function as it is, not wrapped in a DatabaseError
getDatabaseUnwrapped(env) ==
    IF db # NoDb
    THEN [db |-> db, handles |-> handles, err |-> NoError]
    ELSE LET p == findDatabasePath(env.exists) IN
         IF p = 0
         THEN [db |-> NoDb, handles |-> handles,
               err |-> MkDatabaseError(NotFoundMessage, "none")]
         ELSE IF env.canOpen
         THEN [db |-> Len(handles) + 1,
               handles |-> Append(handles,
                   [path |-> DB_PATHS[p], readonly |-> TRUE, open |-> TRUE,
                    closes |-> 0]),
               err |-> NoError]
         ELSE [db |-> NoDb, handles |-> handles,
               err |-> [name |-> "SQLiteError",
                        message |-> <<"unable to open database file">>,
                        cause |-> "none"]]

\* env.exists: the candidate files present; env.canOpen: `new Database`
\* succeeds.  Yields the handle returned, the new `db` and `handles`, and
\* the error thrown.
getDatabase(env) ==
    IF db # NoDb
    THEN [db |-> db, handles |-> handles, err |-> NoError]
    ELSE LET p == findDatabasePath(env.exists) IN
         IF p = 0
         THEN [db |-> NoDb, handles |-> handles,
               err |-> MkDatabaseError(NotFoundMessage, "none")]
         ELSE IF env.canOpen
         THEN [db |-> Len(handles) + 1,
               handles |-> Append(handles,
                   [path |-> DB_PATHS[p], readonly |-> TRUE, open |-> TRUE,
                    closes |-> 0]),
               err |-> NoError]
         ELSE [db |-> NoDb, handles |-> handles,
               err |-> MkDatabaseError(<<"Failed to open Bear database">>,
                                       "open")]

\* closeDatabase without `db = null`: the handle stays in `db` after close()
closeDatabaseNoReset ==
    IF db # NoDb
    THEN [db |-> db,
          handles |-> [handles EXCEPT ![db].open = FALSE,
                                      ![db].closes = @ + 1]]
    ELSE [db |-> db, handles |-> handles]

\* if (db) { db.close(); db = null }
closeDatabase ==
    IF db # NoDb
    THEN [db |-> NoDb,
          handles |-> [handles EXCEPT ![db].open = FALSE,
                                      ![db].closes = @ + 1]]
    ELSE [db |-> db, handles |-> handles]

----------------------------------------------------------------------------
(* Store: the tables ZSFNOTE, ZSFNOTETAG and Z_5TAGS.  A row's index in   *)
(* `notes` / `tags` is its Z_PK; `links` holds the <<note pk, tag pk>>     *)
(* pairs of the join table.                                                *)

CoreDataEpoch == 978307200

NotePks == DOMAIN store.notes
TagPks == DOMAIN store.tags

Live(n) == store.notes[n].trashed = 0 /\ store.notes[n].archived = 0

\* byte value of a character, for the BINARY collation of ORDER BY
CharCode(c) ==
    CASE c = "\n" -> 10 [] c = " " -> 32 [] c = "#" -> 35 [] c = "%" -> 37
      [] c = "A" -> 65 [] c = "B" -> 66 [] c = "_" -> 95
      [] c = "a" -> 97 [] c = "b" -> 98 [] OTHER -> 120

RECURSIVE StrLess(_, _)
StrLess(x, y) ==
    IF y = <<>> THEN FALSE
    ELSE IF x = <<>> THEN TRUE
    ELSE IF CharCode(Head(x)) # CharCode(Head(y))
         THEN CharCode(Head(x)) < CharCode(Head(y))
    ELSE StrLess(Tail(x), Tail(y))

\* SQLite's LIKE: % matches any run of characters, _ exactly one character,
\* any other character matches itself ignoring ASCII case
RECURSIVE Like(_, _)
Like(pat, s) ==
    IF pat = <<>> THEN s = <<>>
    ELSE IF Head(pat) = "%"
         THEN Like(Tail(pat), s) \/ (s # <<>> /\ Like(pat, Tail(s)))
    ELSE IF s = <<>> THEN FALSE
    ELSE IF Head(pat) = "_" THEN Like(Tail(pat), Tail(s))
    ELSE LowerChar(Head(pat)) = LowerChar(Head(s))
             /\ Like(Tail(pat), Tail(s))

\* `%${x}%`
Wrap(x) == <<"%">> \o x \o <<"%">>

\* the elements of S as a sequence in the strict total order lt (a function
\* on pairs), cut at `limit`: ORDER BY ... LIMIT
Ordered(S, lt, limit) ==
    LET ranked == {<<a, Cardinality({b \in S : lt[b, a]})>> : a \in S}
        k == IF Cardinality(S) < limit THEN Cardinality(S) ELSE limit
    IN  [i \in 1..k |-> (CHOOSE p \in ranked : p[2] = i - 1)[1]]

\* ORDER BY ZMODIFICATIONDATE DESC; rows of equal date come in an order SQL
\* leaves open: `tie` picks ascending or descending Z_PK
NewerFirst(tie) ==
    [x \in NotePks, y \in NotePks |->
        \/ store.notes[x].mtime > store.notes[y].mtime
        \/ /\ store.notes[x].mtime = store.notes[y].mtime
           /\ IF tie = "asc" THEN x < y ELSE x > y]

----------------------------------------------------------------------------
(* Read path: SQLite queries *)

SEARCH_LIMIT == 100
RECENT_LIMIT == 50

\* the join rows of getNoteTagsBatch, ordered by t.ZTITLE
TagRowBefore(a, b) ==
    \/ StrLess(store.tags[a[2]], store.tags[b[2]])
    \/ /\ store.tags[a[2]] = store.tags[b[2]]
       /\ (a[2] < b[2] \/ (a[2] = b[2] /\ a[1] < b[1]))

\* getNoteTagsBatch(noteIds)[noteId] ?? []
getNoteTagsBatch(noteId) ==
    LET pairs == {l \in store.links :
                     /\ l[1] \in NotePks /\ l[2] \in TagPks
                     /\ store.notes[l[1]].id = noteId}
        rows == Ordered(pairs,
                        [a \in pairs, b \in pairs |-> TagRowBefore(a, b)],
                        Cardinality(pairs))
    IN  [i \in 1..Len(rows) |-> store.tags[rows[i][2]]]

getNoteTags(noteId) == getNoteTagsBatch(noteId)

\* the shape shared by the read functions: getDatabase() ahead of the try
\* block, the query inside it, any failure of the query rethrown as a
\* DatabaseError with the given message
Query(env, message, value) ==
    LET c == getDatabase(env) IN
    IF c.err # NoError
    THEN [value |-> <<>>, err |-> c.err, db |-> c.db, handles |-> c.handles]
    ELSE IF ~env.queryOk
    THEN [value |-> <<>>, err |-> MkDatabaseError(message, "SQLiteError"),
          db |-> c.db, handles |-> c.handles]
    ELSE [value |-> value, err |-> NoError,
          db |-> c.db, handles |-> c.handles]

HasTagLike(n, pat) ==
    \E t \in TagPks : <<n, t>> \in store.links /\ Like(pat, store.tags[t])

\* the Z_PKs selected by the three branches of searchNotes; SELECT DISTINCT
\* over the joined rows leaves one row per note, ZUNIQUEIDENTIFIER being
\* unique
SearchMatches(term, tag) ==
    IF Truthy(tag)
    THEN {n \in NotePks : HasTagLike(n, Wrap(tag.v)) /\ Live(n)}
    ELSE IF Truthy(term)
    THEN {n \in NotePks :
             /\ \/ Like(Wrap(term.v), store.notes[n].title)
                \/ Like(Wrap(term.v), store.notes[n].text)
             /\ Live(n)}
    ELSE {n \in NotePks : Live(n)}

\* searchNotes with LIMIT 100 in the recent-notes branch as well
SearchLimitEverywhere(term, tag) == SEARCH_LIMIT

SearchLimit(term, tag) ==
    IF Truthy(tag) \/ Truthy(term) THEN SEARCH_LIMIT ELSE RECENT_LIMIT

\* datetime(x + 978307200, 'unixepoch'), kept as the Unix time it denotes
ToUnix(x) == x + CoreDataEpoch

SearchRow(n) ==
    [id |-> store.notes[n].id, title |-> store.notes[n].title,
     content |-> Undefined,
     createdAt |-> ToUnix(store.notes[n].ctime),
     modifiedAt |-> ToUnix(store.notes[n].mtime),
     isTrashed |-> store.notes[n].trashed # 0,
     tags |-> getNoteTagsBatch(store.notes[n].id)]

searchNotes(term, tag, env) ==
    Query(env, <<"Failed to search notes">>,
        LET rows == Ordered(SearchMatches(term, tag), NewerFirst(env.tie),
                            SearchLimit(term, tag))
        IN  [i \in 1..Len(rows) |-> SearchRow(rows[i])])

NoteRow(n) ==
    [id |-> store.notes[n].id, title |-> store.notes[n].title,
     content |-> JsString(store.notes[n].text),
     createdAt |-> ToUnix(store.notes[n].ctime),
     modifiedAt |-> ToUnix(store.notes[n].mtime),
     isTrashed |-> store.notes[n].trashed # 0,
     tags |-> getNoteTags(store.notes[n].id)]

\* getNoteContent throwing on a missing row in place of returning null
getNoteContentThrowing(noteId, env) ==
    LET hit == {n \in NotePks : store.notes[n].id = noteId} IN
    IF hit = {}
    THEN Query([env EXCEPT !.queryOk = FALSE],
               <<"Failed to get note content">>, <<>>)
    ELSE Query(env, <<"Failed to get note content">>,
               [found |-> TRUE, note |-> NoteRow(CHOOSE n \in hit : TRUE)])

NullNote == [found |-> FALSE, note |-> <<>>]

getNoteContent(noteId, env) ==
    Query(env, <<"Failed to get note content">>,
        LET hit == {n \in NotePks : store.notes[n].id = noteId} IN
        IF hit = {} THEN NullNote
        ELSE [found |-> TRUE, note |-> NoteRow(CHOOSE n \in hit : TRUE)])

ListRow(n) ==
    [id |-> store.notes[n].id, title |-> store.notes[n].title,
     createdAt |-> ToUnix(store.notes[n].ctime),
     modifiedAt |-> ToUnix(store.notes[n].mtime),
     tags |-> getNoteTagsBatch(store.notes[n].id)]

listNotesByTag(tag, env) ==
    Query(env, <<"Failed to list notes by tag">>,
        LET hit == {n \in NotePks :
                       /\ \E t \in TagPks :
                              /\ <<n, t>> \in store.links
                              /\ Lower(store.tags[t]) = Lower(tag)
                       /\ Live(n)}
            rows == Ordered(hit, NewerFirst(env.tie), SEARCH_LIMIT)
        IN  [i \in 1..Len(rows) |-> ListRow(rows[i])])

\* COUNT(DISTINCT n.Z_PK): the count without the trashed / archived test
NoteCountAll(name) ==
    Cardinality({n \in NotePks :
        \E t \in TagPks : store.tags[t] = name /\ <<n, t>> \in store.links})

\* COUNT(DISTINCT CASE WHEN n.ZTRASHED = 0 AND n.ZARCHIVED = 0 THEN n.Z_PK END)
\* over the group of the tag rows titled `name`
NoteCount(name) ==
    Cardinality({n \in NotePks :
        /\ \E t \in TagPks : store.tags[t] = name /\ <<n, t>> \in store.links
        /\ store.notes[n].trashed = 0 /\ store.notes[n].archived = 0})

getAllTags(env) ==
    Query(env, <<"Failed to get tags">>,
        LET groups == {store.tags[t] : t \in TagPks}
            having == {g \in groups : NoteCount(g) > 0}
            names == Ordered(having,
                             [a \in having, b \in having |-> StrLess(a, b)],
                             Cardinality(having))
        IN  [i \in 1..Len(names) |->
                [name |-> names[i], noteCount |-> NoteCount(names[i])]])

listArchivedNotes(env) ==
    Query(env, <<"Failed to list archived notes">>,
        LET hit == {n \in NotePks :
                       store.notes[n].archived = 1
                           /\ store.notes[n].trashed = 0}
            rows == Ordered(hit, NewerFirst(env.tie), SEARCH_LIMIT)
        IN  [i \in 1..Len(rows) |-> ListRow(rows[i])])

----------------------------------------------------------------------------
(* Tool handlers (server.ts) *)

NoResult == [isError |-> FALSE, kind |-> "none", text |-> <<>>, data |-> <<>>]

TextResult(text) ==
    [isError |-> FALSE, kind |-> "text", text |-> text, data |-> <<>>]

\* JSON.stringify(value, null, 2) as the text of the payload
JsonResult(value) ==
    [isError |-> FALSE, kind |-> "json", text |-> <<>>, data |-> value]

ErrorClasses == {"BearError", "DatabaseError", "TypeError"}

handleError(error) ==
    LET message == IF error.name \in ErrorClasses THEN error.message
                   ELSE <<"An unknown error occurred">>
    IN  [isError |-> TRUE, kind |-> "text",
         text |-> <<"Error: ">> \o message, data |-> <<>>]

\* a handler whose catch clause handles BearError only and rethrows the rest
TryCatchBearOnly(err, ok) ==
    IF err = NoError THEN [result |-> ok, escaped |-> FALSE]
    ELSE IF err.name = "BearError"
    THEN [result |-> handleError(err), escaped |-> FALSE]
    ELSE [result |-> NoResult, escaped |-> TRUE]

\* try { ...; return ok } catch (error) { return handleError(error) }
TryCatch(err, ok) ==
    [result |-> IF err = NoError THEN ok ELSE handleError(err),
     escaped |-> FALSE]

NoReq ==
    [tool |-> "none", noteId |-> <<>>, title |-> <<>>, text |-> <<>>,
     tags |-> Undefined, term |-> Undefined, tag |-> Undefined,
     name |-> <<>>, newName |-> <<>>,
     env |-> [exists |-> {}, canOpen |-> FALSE, queryOk |-> FALSE,
              tie |-> "asc"]]

\* a write handler that looks the store up after dispatching, to confirm
WriteToolReadBack(req, out, ok) ==
    LET c == getDatabase([exists |-> {"icloud"}, canOpen |-> TRUE,
                          queryOk |-> TRUE, tie |-> "asc"])
    IN  /\ running
        /\ lastOp' = req
        /\ result' = TryCatch(out.err, ok).result
        /\ escaped' = TryCatch(out.err, ok).escaped
        /\ fault' = out.err
        /\ calls' = out.calls
        /\ db' = c.db
        /\ handles' = c.handles
        /\ UNCHANGED <<store, running>>

\* a handler of the write path: `out` is the outcome of the function called
WriteTool(req, out, ok) ==
    /\ running
    /\ lastOp' = req
    /\ result' = TryCatch(out.err, ok).result
    /\ escaped' = TryCatch(out.err, ok).escaped
    /\ fault' = out.err
    /\ calls' = out.calls
    /\ UNCHANGED <<db, handles, store, running>>

\* a handler of the read path
ReadTool(req, out, ok) ==
    /\ running
    /\ lastOp' = req
    /\ result' = TryCatch(out.err, ok).result
    /\ escaped' = TryCatch(out.err, ok).escaped
    /\ fault' = out.err
    /\ calls' = NoCalls
    /\ db' = out.db
    /\ handles' = out.handles
    /\ UNCHANGED <<store, running>>

bear_create_note(title, text, tags, openOk) ==
    WriteTool([NoReq EXCEPT !.tool = "bear_create_note", !.title = title,
                            !.text = text, !.tags = tags],
              createNote(title, text, tags, openOk),
              TextResult(<<"Created note: ">> \o title))

bear_search(term, tag, env) ==
    LET out == searchNotes(term, tag, env) IN
    ReadTool([NoReq EXCEPT !.tool = "bear_search", !.term = term,
                           !.tag = tag, !.env = env],
             out, JsonResult(out.value))

bear_get_note(noteId, env) ==
    LET out == getNoteContent(noteId, env) IN
    ReadTool([NoReq EXCEPT !.tool = "bear_get_note", !.noteId = noteId,
                           !.env = env],
             out,
             IF ~out.value.found
             THEN [isError |-> TRUE, kind |-> "text",
                   text |-> <<"Note not found: ">> \o noteId, data |-> <<>>]
             ELSE JsonResult(out.value.note))

bear_append(noteId, text, openOk) ==
    WriteTool([NoReq EXCEPT !.tool = "bear_append", !.noteId = noteId,
                            !.text = text],
              appendToNote(noteId, text, openOk),
              TextResult(<<"Appended text to note: ">> \o noteId))

bear_prepend(noteId, text, openOk) ==
    WriteTool([NoReq EXCEPT !.tool = "bear_prepend", !.noteId = noteId,
                            !.text = text],
              prependToNote(noteId, text, openOk),
              TextResult(<<"Prepended text to note: ">> \o noteId))

\* calls replaceNoteContent(noteId, title, text, tags): the function binds
\* its three parameters to noteId, title and text, the fourth argument is
\* dropped
bear_replace_content(noteId, title, text, tags, openOk) ==
    WriteTool([NoReq EXCEPT !.tool = "bear_replace_content",
                            !.noteId = noteId, !.title = title,
                            !.text = text, !.tags = tags],
              replaceNoteContent(noteId, title, JsString(text), openOk),
              TextResult(<<"Replaced content of note: ">> \o noteId))

bear_list_tags(env) ==
    LET out == getAllTags(env) IN
    ReadTool([NoReq EXCEPT !.tool = "bear_list_tags", !.env = env],
             out, JsonResult(out.value))

bear_list_by_tag(tag, env) ==
    LET out == listNotesByTag(tag, env) IN
    ReadTool([NoReq EXCEPT !.tool = "bear_list_by_tag",
                           !.tag = JsString(tag), !.env = env],
             out,
             JsonResult([tag |-> tag, count |-> Len(out.value),
                         notes |-> out.value]))

bear_rename_tag(name, newName, openOk) ==
    WriteTool([NoReq EXCEPT !.tool = "bear_rename_tag", !.name = name,
                            !.newName = newName],
              renameTag(name, newName, openOk),
              TextResult(<<"Renamed tag '">> \o name \o <<"' to '">>
                             \o newName \o <<"'">>))

bear_delete_tag(name, openOk) ==
    WriteTool([NoReq EXCEPT !.tool = "bear_delete_tag", !.name = name],
              deleteTag(name, openOk),
              TextResult(<<"Deleted tag: ">> \o name))

bear_trash_note(noteId, openOk) ==
    WriteTool([NoReq EXCEPT !.tool = "bear_trash_note", !.noteId = noteId],
              trashNote(noteId, openOk),
              TextResult(<<"Moved note to trash: ">> \o noteId))

bear_archive_note(noteId, openOk) ==
    WriteTool([NoReq EXCEPT !.tool = "bear_archive_note",
                            !.noteId = noteId],
              archiveNote(noteId, openOk),
              TextResult(<<"Archived note: ">> \o noteId))

bear_unarchive_note(noteId, openOk) ==
    WriteTool([NoReq EXCEPT !.tool = "bear_unarchive_note",
                            !.noteId = noteId],
              unarchiveNote(noteId, openOk),
              TextResult(<<"Unarchived note: ">> \o noteId))

bear_list_archived(env) ==
    LET out == listArchivedNotes(env) IN
    ReadTool([NoReq EXCEPT !.tool = "bear_list_archived", !.env = env],
             out,
             JsonResult([count |-> Len(out.value), notes |-> out.value]))

\* SIGINT / SIGTERM: closeDatabase(); process.exit(0)
Shutdown ==
    /\ running
    /\ db' = closeDatabase.db
    /\ handles' = closeDatabase.handles
    /\ running' = FALSE
    /\ UNCHANGED <<store, lastOp, result, fault, escaped, calls>>

\* database.ts as a module: a caller's getDatabase() ...
GetDatabase(env) ==
    /\ running
    /\ Len(handles) < MaxOpens
    /\ lastOp' = [NoReq EXCEPT !.tool = "getDatabase", !.env = env]
    /\ db' = getDatabase(env).db
    /\ handles' = getDatabase(env).handles
    /\ fault' = getDatabase(env).err
    /\ UNCHANGED <<store, running, result, escaped, calls>>

\* ... and a caller's closeDatabase()
CloseDatabase ==
    /\ running
    /\ lastOp' = [NoReq EXCEPT !.tool = "closeDatabase"]
    /\ db' = closeDatabase.db
    /\ handles' = closeDatabase.handles
    /\ fault' = NoError
    /\ UNCHANGED <<store, running, result, escaped, calls>>

----------------------------------------------------------------------------
(* Stores *)

\* ZUNIQUEIDENTIFIER of the note with Z_PK i
IdOf(i) == <<"n", ToString(i)>>

MkNote(i, title, text, mtime, trashed, archived) ==
    [id |-> IdOf(i), title |-> title, text |-> text, ctime |-> 0,
     mtime |-> mtime, trashed |-> trashed, archived |-> archived]

EmptyStore == [notes |-> <<>>, tags |-> <<>>, links |-> {}]

\* one live note bearing two tags, one trashed note, one archived note
DemoStore ==
    [notes |-> << MkNote(1, <<"A", "b">>, <<"b">>, 2, 0, 0),
                  MkNote(2, <<"a">>, <<>>, 3, 1, 0),
                  MkNote(3, <<"b">>, <<"a">>, 1, 0, 1) >>,
     tags  |-> << <<"a">>, <<"A", "b">> >>,
     links |-> {<<1, 1>>, <<1, 2>>, <<2, 1>>, <<3, 2>>}]

\* the kinds of note of an enumerated store
NoteKinds ==
    << [title |-> <<"A", "b">>, text |-> <<>>, trashed |-> 0, archived |-> 0],
       [title |-> <<"b">>, text |-> <<"a">>, trashed |-> 0, archived |-> 0],
       [title |-> <<"A", "b">>, text |-> <<>>, trashed |-> 1, archived |-> 0],
       [title |-> <<"a">>, text |-> <<>>, trashed |-> 0, archived |-> 1] >>

\* the tag rows of an enumerated store; the third is borne by no note
TagRows == << <<"a">>, <<"A", "b">>, <<"b">> >>

\* the tag pks one note can bear
TagSets == {{}, {1}, {1, 2}}

\* n notes, note i of kind k[i] bearing the tags ts[i], modified at time i
SmallStore(n, k, ts) ==
    [notes |-> [i \in 1..n |->
                  MkNote(i, NoteKinds[k[i]].title, NoteKinds[k[i]].text, i,
                         NoteKinds[k[i]].trashed, NoteKinds[k[i]].archived)],
     tags  |-> TagRows,
     links |-> {l \in (1..n) \X (1..Len(TagRows)) : l[2] \in ts[l[1]]}]

SmallStores ==
    UNION { {SmallStore(n, k, ts) :
                 k \in [1..n -> 1..Len(NoteKinds)], ts \in [1..n -> TagSets]} :
            n \in 0..MaxNotes }

\* modification times of a bulk store: descending, scattered, or equal in
\* pairs
BulkTime(order, n, i) ==
    CASE order = "desc" -> n + 1 - i
      [] order = "mix"  -> (i * 7) % (n + 1)
      [] OTHER          -> i \div 2

\* n notes titled "a"; with dead > 0 every dead-th note is trashed and every
\* (dead + 4)-th archived; the odd notes bear the tag "a"
BulkStore(n, order, dead) ==
    [notes |-> [i \in 1..n |->
                  MkNote(i, <<"a">>, <<>>, BulkTime(order, n, i),
                         IF dead > 0 /\ i % dead = 0 THEN 1 ELSE 0,
                         IF dead > 0 /\ i % (dead + 4) = 0 THEN 1 ELSE 0)],
     tags  |-> << <<"a">> >>,
     links |-> {<<i, 1>> : i \in {j \in 1..n : j % 2 = 1}}]

BulkStores ==
    {BulkStore(n, order, dead) :
         n \in (MaxBulk - 2)..MaxBulk,
         order \in {"desc", "mix", "tie"},
         dead \in {0, 7}}

----------------------------------------------------------------------------
(* Inputs *)

Titles == {<<"X">>, <<"a", " ", "b">>}
Texts == {<<>>, <<"b", "o", "d", "y">>}
TagWords == {<<"a">>, <<"b">>}

\* the `tags` argument: absent, or an array of at most MaxTags tags
TagLists ==
    {Undefined} \cup
    {JsArray(a) : a \in UNION {[1..n -> TagWords] : n \in 0..MaxTags}}

\* note identifiers asked for: notes 1 and 2, and one no store holds
NoteIds == {IdOf(1), IdOf(2), IdOf(0)}

\* the environment of one read: which candidate files exist, whether the
\* file opens, whether the queries run, how SQLite orders equal dates
Envs ==
    [exists : SUBSET {"icloud", "local"}, canOpen : BOOLEAN,
     queryOk : BOOLEAN, tie : {"asc"}]

GoodEnvs ==
    [exists : {{"icloud"}}, canOpen : {TRUE}, queryOk : {TRUE},
     tie : {"asc", "desc"}]

Terms == {Undefined, JsString(<<"a">>)}
TagFilters == {Undefined, JsString(<<"a">>)}

QueryTerms ==
    {Undefined, JsString(<<>>), JsString(<<"a">>), JsString(<<"_">>)}
QueryTags == {Undefined, JsString(<<"a">>), JsString(<<"_">>)}

----------------------------------------------------------------------------
(* The server: all fourteen tools and the termination signals *)

InitWith(stores) ==
    /\ db = NoDb
    /\ handles = <<>>
    /\ store \in stores
    /\ running = TRUE
    /\ lastOp = NoReq
    /\ result = NoResult
    /\ fault = NoError
    /\ escaped = FALSE
    /\ calls = NoCalls

Init == InitWith({EmptyStore, DemoStore})

Next ==
    \/ \E title \in Titles, text \in Texts, tags \in TagLists,
          openOk \in BOOLEAN :
           bear_create_note(title, text, tags, openOk)
    \/ \E term \in Terms, tag \in TagFilters, env \in Envs :
           bear_search(term, tag, env)
    \/ \E noteId \in NoteIds, env \in Envs : bear_get_note(noteId, env)
    \/ \E noteId \in NoteIds, text \in Texts, openOk \in BOOLEAN :
           bear_append(noteId, text, openOk)
    \/ \E noteId \in NoteIds, text \in Texts, openOk \in BOOLEAN :
           bear_prepend(noteId, text, openOk)
    \/ \E noteId \in NoteIds, title \in Titles, text \in Texts,
          tags \in TagLists, openOk \in BOOLEAN :
           bear_replace_content(noteId, title, text, tags, openOk)
    \/ \E env \in Envs : bear_list_tags(env)
    \/ \E tag \in TagWords, env \in Envs : bear_list_by_tag(tag, env)
    \/ \E name \in TagWords, newName \in TagWords, openOk \in BOOLEAN :
           bear_rename_tag(name, newName, openOk)
    \/ \E name \in TagWords, openOk \in BOOLEAN : bear_delete_tag(name, openOk)
    \/ \E noteId \in NoteIds, openOk \in BOOLEAN :
           bear_trash_note(noteId, openOk)
    \/ \E noteId \in NoteIds, openOk \in BOOLEAN :
           bear_archive_note(noteId, openOk)
    \/ \E noteId \in NoteIds, openOk \in BOOLEAN :
           bear_unarchive_note(noteId, openOk)
    \/ \E env \in Envs : bear_list_archived(env)
    \/ Shutdown

Spec == Init /\ [][Next]_vars

----------------------------------------------------------------------------
(* The read tools over every enumerated store, the store file present and  *)
(* readable                                                                *)

InitQuery == InitWith(SmallStores)

NextQuery ==
    \/ \E term \in QueryTerms, tag \in QueryTags, env \in GoodEnvs :
           bear_search(term, tag, env)
    \/ \E noteId \in NoteIds, env \in GoodEnvs : bear_get_note(noteId, env)
    \/ \E env \in GoodEnvs : bear_list_tags(env)
    \/ \E tag \in TagWords, env \in GoodEnvs : bear_list_by_tag(tag, env)
    \/ \E env \in GoodEnvs : bear_list_archived(env)

SpecQuery == InitQuery /\ [][NextQuery]_vars

----------------------------------------------------------------------------
(* Searches over the enumerated stores and over stores holding more notes  *)
(* than a query returns                                                    *)

InitRecent == InitWith(SmallStores \cup BulkStores)

NextRecent ==
    \E term \in QueryTerms, tag \in QueryTags, env \in GoodEnvs :
        bear_search(term, tag, env)

SpecRecent == InitRecent /\ [][NextRecent]_vars

----------------------------------------------------------------------------
(* The connection module under any sequence of opens, closes and a         *)
(* termination signal                                                      *)

NextConnection ==
    \/ \E env \in Envs : GetDatabase(env)
    \/ CloseDatabase
    \/ Shutdown

SpecConnection == Init /\ [][NextConnection]_vars

----------------------------------------------------------------------------
(* Properties *)

WriteTools ==
    {"bear_create_note", "bear_append", "bear_prepend",
     "bear_replace_content", "bear_rename_tag", "bear_delete_tag",
     "bear_trash_note", "bear_archive_note", "bear_unarchive_note"}

ReadTools ==
    {"bear_search", "bear_get_note", "bear_list_tags", "bear_list_by_tag",
     "bear_list_archived"}

\* no row of ZSFNOTE carries the identifier
Absent(noteId) == \A n \in NotePks : store.notes[n].id # noteId

\* the last request was get-note on an absent identifier, the store was
\* opened (the handle is still held) and its queries ran
GetNoteMissed ==
    /\ lastOp.tool = "bear_get_note"
    /\ Absent(lastOp.noteId)
    /\ db # NoDb
    /\ lastOp.env.queryOk

GetNoteStep == \E noteId \in NoteIds, env \in Envs : bear_get_note(noteId, env)

\* C1 as stated: get-note on an identifier absent from the store returns a
\* result that is not error-flagged, and no exception escapes.
C1_NotFoundNotErrorFlagged ==
    GetNoteMissed => ~result.isError /\ ~escaped

\* C1 as amended: when the store opens and the lookup runs, get-note on an
\* absent identifier returns the text "Note not found: <id>" with the error
\* flag set, produced by the handler's own branch and not by a caught
\* exception; no exception escapes and the handler leaves the process
\* running.
C1_NotFoundResult ==
    /\ [](GetNoteMissed =>
            /\ result = [isError |-> TRUE, kind |-> "text",
                         text |-> <<"Note not found: ">> \o lastOp.noteId,
                         data |-> <<>>]
            /\ fault = NoError
            /\ ~escaped)
    /\ [][GetNoteStep => running' /\ ~escaped']_vars

C1_Witness ==
    /\ GetNoteMissed
    /\ running
    /\ result.isError
    /\ result.text = <<"Note not found: ", "n", "0">>

\* the value of the parameter `key` of a dispatched call, <<>> when the
\* call has no such parameter
HasParam(call, key) == \E i \in 1..Len(call.params) : call.params[i].key = key

ParamValue(call, key) ==
    IF HasParam(call, key)
    THEN call.params[CHOOSE i \in 1..Len(call.params) :
                         call.params[i].key = key].value
    ELSE <<>>

TagsGiven(tags) == tags.t = "array" /\ Len(tags.v) > 0

\* the hashtag-prefixed tags separated by single spaces
RECURSIVE HashTags(_)
HashTags(tags) ==
    IF Len(tags) = 0 THEN <<>>
    ELSE IF Len(tags) = 1 THEN <<"#">> \o tags[1]
    ELSE <<"#">> \o tags[1] \o <<" ">> \o HashTags(Tail(tags))

\* t reads: something holding the title, then (with tags) something holding
\* the tag line, then the body
TitleTagsBody(t, title, tags, body) ==
    \E i \in 0..Len(t) : \E j \in i..Len(t) :
        /\ Contains(SubSeq(t, 1, i), title)
        /\ TagsGiven(tags) => Contains(SubSeq(t, i + 1, j), HashTags(tags.v))
        /\ SubSeq(t, j + 1, Len(t)) = body

\* C2: every replace-content request dispatches exactly one write, add-text
\* with mode replace_all for the requested id, whose text parameter is the
\* title line, then the tag line when tags are given, then the body.
C2_ReplaceSerializesTitleTagsBody ==
    lastOp.tool = "bear_replace_content" =>
        /\ Len(calls) = 1
        /\ calls[1].action = "add-text"
        /\ ParamValue(calls[1], "mode") = <<"replace_all">>
        /\ ParamValue(calls[1], "id") = lastOp.noteId
        /\ TitleTagsBody(ParamValue(calls[1], "text"), lastOp.title,
                         lastOp.tags, lastOp.text)

\* the action, and for add-text the mode, the write protocol has for a tool
ProtocolAction(tool) ==
    CASE tool = "bear_create_note"     -> "create"
      [] tool = "bear_append"          -> "add-text"
      [] tool = "bear_prepend"         -> "add-text"
      [] tool = "bear_replace_content" -> "add-text"
      [] tool = "bear_trash_note"      -> "trash"
      [] tool = "bear_archive_note"    -> "archive"
      [] tool = "bear_unarchive_note"  -> "unarchive"
      [] tool = "bear_rename_tag"      -> "rename-tag"
      [] tool = "bear_delete_tag"      -> "delete-tag"

ProtocolMode(tool) ==
    CASE tool = "bear_append"          -> <<"append">>
      [] tool = "bear_prepend"         -> <<"prepend">>
      [] tool = "bear_replace_content" -> <<"replace_all">>
      [] OTHER                         -> <<>>

\* C3: each of the nine write tools dispatches the action of the write
\* protocol that belongs to it (add-text with its mode; the tag actions with
\* their names), and none is left without a dispatch.
C3_EveryWriteDispatchesItsAction ==
    lastOp.tool \in WriteTools =>
        /\ Len(calls) = 1
        /\ calls[1].action = ProtocolAction(lastOp.tool)
        /\ ParamValue(calls[1], "mode") = ProtocolMode(lastOp.tool)
        /\ lastOp.tool = "bear_rename_tag" =>
               /\ ParamValue(calls[1], "name") = lastOp.name
               /\ ParamValue(calls[1], "new_name") = lastOp.newName
        /\ lastOp.tool = "bear_delete_tag" =>
               ParamValue(calls[1], "name") = lastOp.name

\* C4: whatever a tool's underlying path does, the tool returns a success
\* payload or an error-flagged text payload; when the path threw, the payload
\* is error-flagged and its text is "Error: " followed by the message of the
\* error thrown; no exception escapes the handler.
C4_NoExceptionEscapes ==
    lastOp.tool # "none" =>
        /\ ~escaped
        /\ result.kind \in {"text", "json"}
        /\ result.isError => result.kind = "text" /\ Len(result.text) > 0
        /\ fault # NoError =>
               /\ result.isError
               /\ result.text = <<"Error: ">> \o fault.message
        /\ fault = NoError /\ result.isError =>
               lastOp.tool = "bear_get_note"

\* some tool met each kind of failure and answered with the error payload
C4_Witness ==
    /\ lastOp.tool = "bear_search"
    /\ fault.name = "DatabaseError"
    /\ fault.cause = "SQLiteError"
    /\ result.isError
    /\ result.text = <<"Error: ", "Failed to search notes">>

\* C9: a create-note request dispatches `create` with the title as its own
\* parameter and a text parameter that is, with tags, the hashtag-prefixed
\* tags joined by single spaces, a blank line, then the body unchanged, and
\* without tags (absent or empty) exactly the body.
C9_CreateTextHasTagLine ==
    lastOp.tool = "bear_create_note" =>
        /\ Len(calls) = 1
        /\ calls[1].action = "create"
        /\ ParamValue(calls[1], "title") = lastOp.title
        /\ ParamValue(calls[1], "text") =
               IF TagsGiven(lastOp.tags)
               THEN HashTags(lastOp.tags.v) \o <<"\n", "\n">> \o lastOp.text
               ELSE lastOp.text

\* create-note("X", "body", ["a", "b"])
C9_Witness ==
    /\ lastOp.tool = "bear_create_note"
    /\ lastOp.title = <<"X">>
    /\ lastOp.tags = JsArray(<< <<"a">>, <<"b">> >>)
    /\ Len(calls) = 1
    /\ ParamValue(calls[1], "text") =
           <<"#", "a", " ", "#", "b", "\n", "\n", "b", "o", "d", "y">>

OpenHandles == {h \in 1..Len(handles) : handles[h].open}

\* C10: while the process runs, at most one handle is ever opened and at most
\* one is open; the handle held is open and read-only; a handle is opened
\* only by a read tool; a read that met no connection error leaves a handle
\* held; and once a handle is held every later request, read or write,
\* leaves that same handle in place and opens no other.
C10_SingleConnection ==
    /\ [](/\ Len(handles) <= 1
          /\ Cardinality(OpenHandles) <= 1
          /\ db # NoDb => db \in OpenHandles /\ handles[db].readonly
          /\ (running /\ lastOp.tool \in ReadTools /\ fault.cause # "open"
                  /\ fault.message # NotFoundMessage) => db # NoDb)
    /\ [][/\ Len(handles') > Len(handles) =>
                 db = NoDb /\ lastOp'.tool \in ReadTools
          /\ (db # NoDb /\ running') => db' = db /\ handles' = handles]_vars

\* a read served from the handle already held: no candidate file exists any
\* more, yet the read succeeds on the one handle
C10_Witness ==
    /\ lastOp.tool \in ReadTools
    /\ lastOp.env.exists = {}
    /\ fault = NoError
    /\ db = 1
    /\ Len(handles) = 1

\* the Z_PK of the note a returned row stands for
PkOf(noteId) == CHOOSE n \in NotePks : store.notes[n].id = noteId

Returned == {result.data[i].id : i \in 1..Len(result.data)}

LiveNotes == {n \in NotePks : Live(n)}

SearchDone ==
    lastOp.tool = "bear_search" /\ fault = NoError /\ ~result.isError

\* C5: a search with a free-text term S and no tag filter returns at most 100
\* notes, each holding S case-insensitively as a substring of its title or
\* of its body, none trashed or archived.
C5_TermSearchMatchesSubstring ==
    (SearchDone /\ lastOp.term.t = "string" /\ lastOp.tag.t = "undefined") =>
        /\ Len(result.data) <= SEARCH_LIMIT
        /\ \A i \in 1..Len(result.data) :
               LET n == PkOf(result.data[i].id) IN
               /\ \/ ContainsNoCase(store.notes[n].title, lastOp.term.v)
                  \/ ContainsNoCase(store.notes[n].text, lastOp.term.v)
               /\ Live(n)

\* C6: a search with a tag filter T returns at most 100 notes, each once,
\* each bearing a tag whose name holds T case-insensitively as a substring,
\* none trashed or archived.
C6_TagSearchMatchesSubstring ==
    (SearchDone /\ lastOp.tag.t = "string") =>
        /\ Len(result.data) <= SEARCH_LIMIT
        /\ Cardinality(Returned) = Len(result.data)
        /\ \A i \in 1..Len(result.data) :
               LET n == PkOf(result.data[i].id) IN
               /\ \E t \in TagPks :
                      /\ <<n, t>> \in store.links
                      /\ ContainsNoCase(store.tags[t], lastOp.tag.v)
               /\ Live(n)

BrowseRecent ==
    SearchDone /\ ~Truthy(lastOp.term) /\ ~Truthy(lastOp.tag)

\* C7: a search with neither term nor tag succeeds and returns at most 50
\* notes, each once, none trashed or archived, newest modification first;
\* as many as there are such notes up to 50, and no such note left out is
\* newer than one returned.
C7_BrowseRecent ==
    /\ (lastOp.tool = "bear_search" /\ ~Truthy(lastOp.term)
            /\ ~Truthy(lastOp.tag)) => ~result.isError /\ fault = NoError
    /\ BrowseRecent =>
        /\ Len(result.data) <= RECENT_LIMIT
        /\ Cardinality(Returned) = Len(result.data)
        /\ Len(result.data) = IF Cardinality(LiveNotes) < RECENT_LIMIT
                              THEN Cardinality(LiveNotes) ELSE RECENT_LIMIT
        /\ \A i \in 1..Len(result.data) : Live(PkOf(result.data[i].id))
        /\ \A i \in 1..(Len(result.data) - 1) :
               result.data[i].modifiedAt >= result.data[i + 1].modifiedAt
        /\ \A m \in LiveNotes : \A i \in 1..Len(result.data) :
               store.notes[m].id \notin Returned =>
                   store.notes[m].mtime
                       <= store.notes[PkOf(result.data[i].id)].mtime

\* more than 50 notes qualify and exactly 50 come back
C7_Witness ==
    /\ BrowseRecent
    /\ Cardinality(LiveNotes) > RECENT_LIMIT
    /\ Len(result.data) = RECENT_LIMIT

\* the non-trashed, non-archived notes bearing a tag of that name
Bearers(name) ==
    {n \in LiveNotes :
        \E t \in TagPks : <<n, t>> \in store.links /\ store.tags[t] = name}

ListedNames == {result.data[i].name : i \in 1..Len(result.data)}

ListTagsDone ==
    lastOp.tool = "bear_list_tags" /\ fault = NoError /\ ~result.isError

\* C8: list-tags returns exactly the tags borne by at least one non-trashed,
\* non-archived note, each once, with noteCount the number of such notes;
\* a tag with no such note is not returned.
C8_ListTagsCountsQualifyingNotes ==
    ListTagsDone =>
        /\ ListedNames =
               {store.tags[t] : t \in {u \in TagPks :
                                          Bearers(store.tags[u]) # {}}}
        /\ Cardinality(ListedNames) = Len(result.data)
        /\ \A i \in 1..Len(result.data) :
               /\ result.data[i].noteCount > 0
               /\ result.data[i].noteCount =
                      Cardinality(Bearers(result.data[i].name))

\* one tag is listed while another, borne by trashed or archived notes only,
\* is left out
C8_Witness ==
    /\ ListTagsDone
    /\ Len(result.data) > 0
    /\ \E t \in TagPks :
           /\ \E n \in NotePks : <<n, t>> \in store.links
           /\ Bearers(store.tags[t]) = {}
           /\ store.tags[t] \notin ListedNames

----------------------------------------------------------------------------
\* C11: closeDatabase with no connection held (never opened, or closed
\* already) changes neither `db` nor any handle; no handle is ever closed
\* twice, a closed handle is never touched again, the only open handle is
\* the one held, and after the termination signal every handle that was
\* opened has been closed exactly once.
C11_CloseIdempotent ==
    /\ [](\A h \in 1..Len(handles) :
              /\ handles[h].closes <= 1
              /\ handles[h].open <=> handles[h].closes = 0
              /\ handles[h].open => db = h)
    /\ [](~running => \A h \in 1..Len(handles) : handles[h].closes = 1)
    /\ [][(db = NoDb /\ (lastOp'.tool = "closeDatabase" \/ ~running')) =>
              db' = NoDb /\ handles' = handles]_vars
    /\ [][\A h \in 1..Len(handles) :
              ~handles[h].open => /\ Len(handles') >= h
                                  /\ handles'[h] = handles[h]]_vars

\* two connections were opened one after the other and each was closed
\* exactly once, closeDatabase being the call handled last
C11_Witness ==
    /\ Len(handles) = 2
    /\ handles[1].closes = 1
    /\ handles[2].closes = 1
    /\ db = NoDb
    /\ lastOp.tool = "closeDatabase"

----------------------------------------------------------------------------
\* C12: a write tool's path throws nothing but BearError, and when its
\* dispatch was not accepted the error thrown is a BearError that carries
\* the action's name, the parameters of the call and the underlying cause.
C12_DispatchFailureIsBearError ==
    lastOp.tool \in WriteTools =>
        /\ fault.name \in {"none", "BearError"}
        /\ (Len(calls) = 1 /\ ~calls[1].accepted) =>
               /\ fault.name = "BearError"
               /\ fault.message =
                      <<"Failed to call Bear action: ", calls[1].action>>
               /\ fault.cause = "open"
               /\ "params" \in DOMAIN fault
               /\ fault.params = calls[1].params

----------------------------------------------------------------------------
\* the request handled last was a read whose getDatabase() threw
ConnFailed ==
    /\ lastOp.tool \in ReadTools
    /\ fault.name = "DatabaseError"
    /\ fault.message = NotFoundMessage \/ fault.cause = "open"

\* the step is the handling of a read request
ReadStep == running' /\ lastOp'.tool \in ReadTools

\* the read handled in this step threw `err` while connecting
FailsWith(err) ==
    /\ fault' = err
    /\ result' = handleError(err)
    /\ ~escaped'
    /\ running'
    /\ db' = NoDb
    /\ handles' = handles

\* C13 as claimed: a read whose connection attempt failed returns the typed
\* error to its caller, stores no handle and leaves the process running,
\* and the read handled next fails too, whatever it finds on disk.
C13_ConnectionFailureIsFatal ==
    /\ []((ConnFailed /\ running) =>
              /\ result = handleError(fault)
              /\ ~escaped
              /\ db = NoDb)
    /\ [][(ConnFailed /\ ReadStep) => fault' # NoError]_vars

\* C13: a read that finds no connection held probes the candidate paths
\* itself, after an earlier failure as well as on first use: with no
\* candidate present it fails with the store-not-found DatabaseError, with
\* the first candidate present but not opening it fails with the open-failed
\* DatabaseError carrying the cause; the handler returns that error's
\* message as an error payload, no handle is stored and the process keeps
\* running; with a candidate that opens, the read connects and holds the
\* handle, an earlier failure notwithstanding.
C13_ConnectionFailurePropagates ==
    [][(ReadStep /\ db = NoDb) =>
          LET env == lastOp'.env IN
          IF findDatabasePath(env.exists) = 0
          THEN FailsWith(MkDatabaseError(NotFoundMessage, "none"))
          ELSE IF ~env.canOpen
          THEN FailsWith(MkDatabaseError(<<"Failed to open Bear database">>,
                                         "open"))
          ELSE /\ db' = Len(handles) + 1
               /\ Len(handles') = Len(handles) + 1
               /\ handles'[db'].open
               /\ ~ConnFailed']_vars

\* a read found the store file present but could not open it
C13_Witness ==
    /\ ConnFailed
    /\ fault.cause = "open"
    /\ lastOp.env.exists # {}
    /\ result.isError
    /\ db = NoDb
    /\ running

----------------------------------------------------------------------------
\* C14: a request to a write tool makes exactly one `open` invocation, and
\* the tool reports success exactly when that invocation was accepted.
C14_ExactlyOneDispatch ==
    lastOp.tool \in WriteTools =>
        /\ Len(calls) = 1
        /\ ~result.isError <=> calls[1].accepted

----------------------------------------------------------------------------
\* C15: the handling of a write request leaves `db` and every handle as they
\* were (it neither opens nor closes a connection); a read request makes no
\* `open` invocation; every handle is opened read-only and no step changes
\* the content of the store.
C15_PathsNeverCross ==
    /\ [](lastOp.tool \in ReadTools => calls = NoCalls)
    /\ [](\A h \in 1..Len(handles) : handles[h].readonly)
    /\ [][(running' /\ lastOp'.tool \in WriteTools) =>
              db' = db /\ handles' = handles]_vars
    /\ [][store' = store]_vars

\* a write dispatched while a connection is held, the connection left open
C15_Witness ==
    /\ lastOp.tool \in WriteTools
    /\ Len(calls) = 1
    /\ calls[1].accepted
    /\ db = 1
    /\ handles[1].open
    /\ running

====
